---- MODULE Spec2Model ----
(***************************************************************************)
(* The upload queue of bot.py: handle_media appends to upload_queue and    *)
(* activates process_queue, whose drain loop fetches, uploads and notifies *)
(* one item at a time and keeps the statistics.  Every coroutine is cut at *)
(* its await expressions: one action is the code that runs between two     *)
(* suspension points of the asyncio event loop.                            *)
(***************************************************************************)
EXTENDS Integers, Sequences, FiniteSets, TLC

\* ------------------------------------------------------------------ bounds
\* Media messages handled in one run of the main specification.
MaxItems == 3
\* Media messages handled in one run of the status-view specification.
MaxStatusItems == 11
\* handle_media coroutines suspended at their acknowledgement at one time.
MaxHandlers == 2

\* ------------------------------------------------------- program constants
\* list(upload_queue)[:10] and len(upload_queue) - 10 in queue_status.
StatusLimit == 10
\* result['size'] / (1024*1024)
BytesPerMB == 1048576

\* ------------------------------------------------------------ input domains
ADMIN_USER_IDS == {"admin"}
Users == {"admin", "guest"}
\* The media message with the given id: two chats take turns, and every
\* message carries a file name of its own.
Updates(id) == {[message_id |-> id, chat_id |-> 1 + (id % 2), filename |-> <<"file", id>>]}
\* The size Drive reports for an uploaded file, in bytes.
Sizes == {3, 5}
Folders == {"F0", "F1"}

NoItem == [message_id |-> 0, chat_id |-> 0, filename |-> <<>>]
NoReply == [kind |-> "none"]

VARIABLES
    upload_queue,            \* deque of queue items
    is_processing,           \* the module's flag
    stats,                   \* the four counters
    GOOGLE_DRIVE_FOLDER_ID,  \* the destination setting
    next_message_id,         \* the id the next media message carries
    acking,                  \* handle_media coroutines awaiting reply_text
    pending,                 \* process_queue tasks created and not yet run
    loops,                   \* the local variables of each task inside process_queue
    reply,                   \* the text queue_status or clear_queue sends in this step
    enqueued,                \* history: message ids in append order
    dequeued,                \* history: message ids in popleft order
    notified,                \* history: outcome messages passed to send_message
    transfers,               \* history: results returned by gdrive.upload_file
    raised,                  \* history: a call made by the drain loop has raised
    cleared                  \* history: message ids removed by clear_queue

vars == <<upload_queue, is_processing, stats, GOOGLE_DRIVE_FOLDER_ID,
          next_message_id, acking, pending, loops, reply,
          enqueued, dequeued, notified, transfers, raised, cleared>>

history == <<enqueued, dequeued, notified, transfers, raised, cleared>>

Min(a, b) == IF a < b THEN a ELSE b
Max(a, b) == IF a > b THEN a ELSE b

Init ==
    /\ upload_queue = <<>>
    /\ is_processing = FALSE
    /\ stats = [total_uploads |-> 0, successful_uploads |-> 0,
                failed_uploads |-> 0, total_size_mb |-> [num |-> 0, den |-> BytesPerMB]]
    /\ GOOGLE_DRIVE_FOLDER_ID = "F0"
    /\ next_message_id = 1
    /\ acking = 0
    /\ pending = 0
    /\ loops = {}
    /\ reply = NoReply
    /\ enqueued = <<>>
    /\ dequeued = <<>>
    /\ notified = <<>>
    /\ transfers = [success |-> 0, failure |-> 0, bytes |-> 0]
    /\ raised = FALSE
    /\ cleared = {}

is_admin(user) == user \in ADMIN_USER_IDS

\* ------------------------------------------------------------ handle_media
\* Lines 188-206: append the item, compute the position, call reply_text.
handle_media(u, bound) ==
    /\ next_message_id <= bound
    /\ acking < MaxHandlers
    /\ upload_queue' = Append(upload_queue, u)
    /\ enqueued' = Append(enqueued, u.message_id)
    /\ next_message_id' = next_message_id + 1
    /\ acking' = acking + 1
    /\ reply' = NoReply
    /\ UNCHANGED <<is_processing, stats, GOOGLE_DRIVE_FOLDER_ID, pending, loops,
                   dequeued, notified, transfers, raised, cleared>>

\* Lines 208-210 after reply_text returned: create the task unless processing.
handle_media_ack ==
    /\ acking > 0
    /\ acking' = acking - 1
    /\ pending' = IF ~is_processing THEN pending + 1 ELSE pending
    /\ reply' = NoReply
    /\ UNCHANGED <<upload_queue, is_processing, stats, GOOGLE_DRIVE_FOLDER_ID,
                   next_message_id, loops, history>>

\* reply_text raised: the exception leaves handle_media before line 209.
handle_media_ack_raises ==
    /\ acking > 0
    /\ acking' = acking - 1
    /\ reply' = NoReply
    /\ UNCHANGED <<upload_queue, is_processing, stats, GOOGLE_DRIVE_FOLDER_ID,
                   next_message_id, pending, loops, history>>

\* ----------------------------------------------------------- process_queue
\* The suspension points of a task that is inside the while loop.
LoopStates == {"started", "get_file", "download", "upload", "notify",
               "fail_notify", "sleep"}

\* The tasks whose drain loop is running.
Active == {l \in loops : l.pc \in LoopStates}

\* The locals of a task that has just dequeued item.
NewLoop(item) == [pc |-> "started", item |-> item, file_stream |-> "none",
                  uploads |-> 0, dest |-> "", result |-> "none", notice |-> "none",
                  err |-> "none"]

\* The check of line 216 left out: every activation enters the loop.
AlreadyProcessing_Unchecked == FALSE

\* Line 216: the check a new activation makes before it takes the flag.
AlreadyProcessing == is_processing

\* upload_queue[0] in the place of popleft(): the item stays in the queue.
popleft_Peek(q) == [item |-> Head(q), rest |-> q]

\* upload_queue.pop() in the place of popleft(): the newest item first.
popleft_Newest(q) == [item |-> q[Len(q)], rest |-> SubSeq(q, 1, Len(q) - 1)]

\* Line 223: upload_queue.popleft().
popleft(q) == [item |-> Head(q), rest |-> Tail(q)]

\* An outcome message handed to context.bot.send_message.
Notice(item) == [chat_id |-> item.chat_id, reply_to |-> item.message_id]

\* The loop without line 289: the flag is left as it is when the queue is empty.
LoopCheck_KeepsFlag(others, flag) ==
    IF upload_queue # <<>>
       THEN /\ upload_queue' = popleft(upload_queue).rest
            /\ loops' = others \cup {NewLoop(popleft(upload_queue).item)}
            /\ dequeued' = Append(dequeued, popleft(upload_queue).item.message_id)
            /\ is_processing' = flag
       ELSE /\ is_processing' = is_processing
            /\ loops' = others
            /\ UNCHANGED <<upload_queue, dequeued>>

\* Lines 222-232 and 289-290: the while test; then either the popleft and the
\* call of the "Uploading" message, or the reset of the flag.  others are the
\* other tasks' locals, flag the value is_processing has when the test runs.
LoopCheck(others, flag) ==
    IF upload_queue # <<>>
       THEN /\ upload_queue' = popleft(upload_queue).rest
            /\ loops' = others \cup {NewLoop(popleft(upload_queue).item)}
            /\ dequeued' = Append(dequeued, popleft(upload_queue).item.message_id)
            /\ is_processing' = flag
       ELSE /\ is_processing' = FALSE
            /\ loops' = others
            /\ UNCHANGED <<upload_queue, dequeued>>

\* Lines 216-223: a created task starts to run.
process_queue_start ==
    /\ pending > 0
    /\ pending' = pending - 1
    /\ IF AlreadyProcessing
          THEN UNCHANGED <<upload_queue, is_processing, loops, dequeued>>
          ELSE LoopCheck(loops, TRUE)
    /\ reply' = NoReply
    /\ UNCHANGED <<stats, GOOGLE_DRIVE_FOLDER_ID, next_message_id, acking,
                   enqueued, notified, transfers, raised, cleared>>

\* The locals of the tasks, l replaced by m.
Step(l, m) == (loops \ {l}) \cup {m}

\* Lines 277-284: the except clause, up to the call of the "Error" message.
ExceptClause(l, step) ==
    /\ stats' = [stats EXCEPT !.failed_uploads = @ + 1]
    /\ loops' = Step(l, [l EXCEPT !.pc = "fail_notify", !.err = step, !.notice = "error"])
    /\ notified' = Append(notified, Notice(l.item))
    /\ raised' = TRUE

\* Lines 227-235: the "Uploading" message was sent; get_file is called.
started_returns(l) ==
    /\ l.pc = "started"
    /\ loops' = Step(l, [l EXCEPT !.pc = "get_file"])
    /\ reply' = NoReply
    /\ UNCHANGED <<upload_queue, is_processing, stats, GOOGLE_DRIVE_FOLDER_ID,
                   next_message_id, acking, pending, history>>

\* The except clause left out: an "Uploading" message that raises is skipped
\* and the loop goes on to the delay with nothing recorded.
started_raises_Skip(l) ==
    /\ l.pc = "started"
    /\ loops' = Step(l, [l EXCEPT !.pc = "sleep"])
    /\ reply' = NoReply
    /\ UNCHANGED <<upload_queue, is_processing, stats, GOOGLE_DRIVE_FOLDER_ID,
                   next_message_id, acking, pending, history>>

\* Lines 227-232 and 277-284: the "Uploading" message raised.
started_raises(l) ==
    /\ l.pc = "started"
    /\ ExceptClause(l, "started")
    /\ reply' = NoReply
    /\ UNCHANGED <<upload_queue, is_processing, GOOGLE_DRIVE_FOLDER_ID,
                   next_message_id, acking, pending,
                   enqueued, dequeued, transfers, cleared>>

\* Lines 235-237: get_file returned; the stream is created, the download called.
get_file_returns(l) ==
    /\ l.pc = "get_file"
    /\ loops' = Step(l, [l EXCEPT !.pc = "download", !.file_stream = "open"])
    /\ reply' = NoReply
    /\ UNCHANGED <<upload_queue, is_processing, stats, GOOGLE_DRIVE_FOLDER_ID,
                   next_message_id, acking, pending, history>>

get_file_raises(l) ==
    /\ l.pc = "get_file"
    /\ ExceptClause(l, "get_file")
    /\ reply' = NoReply
    /\ UNCHANGED <<upload_queue, is_processing, GOOGLE_DRIVE_FOLDER_ID,
                   next_message_id, acking, pending,
                   enqueued, dequeued, transfers, cleared>>

\* upload_file called with the folder the program started with, whatever
\* set_folder has stored since.
download_returns_Initial(l) ==
    /\ l.pc = "download"
    /\ loops' = Step(l, [l EXCEPT !.pc = "upload", !.uploads = @ + 1,
                                  !.dest = "F0"])
    /\ reply' = NoReply
    /\ UNCHANGED <<upload_queue, is_processing, stats, GOOGLE_DRIVE_FOLDER_ID,
                   next_message_id, acking, pending, history>>

\* Lines 237-246: the download returned; upload_file is called with the
\* destination read at this moment.
download_returns(l) ==
    /\ l.pc = "download"
    /\ loops' = Step(l, [l EXCEPT !.pc = "upload", !.uploads = @ + 1,
                                  !.dest = GOOGLE_DRIVE_FOLDER_ID])
    /\ reply' = NoReply
    /\ UNCHANGED <<upload_queue, is_processing, stats, GOOGLE_DRIVE_FOLDER_ID,
                   next_message_id, acking, pending, history>>

download_raises(l) ==
    /\ l.pc = "download"
    /\ ExceptClause(l, "download")
    /\ reply' = NoReply
    /\ UNCHANGED <<upload_queue, is_processing, GOOGLE_DRIVE_FOLDER_ID,
                   next_message_id, acking, pending,
                   enqueued, dequeued, transfers, cleared>>

\* size / (1024*1024), kept as an exact fraction of a megabyte.
SizeMB(size) == [num |-> size, den |-> BytesPerMB]

\* stats['total_size_mb'] += ...: both operands are fractions of a megabyte.
AddMB(a, b) == [num |-> a.num + b.num, den |-> a.den]

\* Line 253 left out: a success that adds nothing to total_size_mb.
UpdateStats_NoSize(s, result) ==
    IF result.success
       THEN [s EXCEPT !.total_uploads = @ + 1,
                      !.successful_uploads = @ + 1]
       ELSE [s EXCEPT !.total_uploads = @ + 1,
                      !.failed_uploads = @ + 1]

\* Lines 248-253 and 267: the counters after upload_file returned result.
UpdateStats(s, result) ==
    IF result.success
       THEN [s EXCEPT !.total_uploads = @ + 1,
                      !.successful_uploads = @ + 1,
                      !.total_size_mb = AddMB(@, SizeMB(result.size))]
       ELSE [s EXCEPT !.total_uploads = @ + 1,
                      !.failed_uploads = @ + 1]

\* What upload_file can return (lines 83-102): it catches every exception.
Results == [success : {TRUE}, size : Sizes] \cup [success : {FALSE}, size : {0}]

\* Lines 241-272: upload_file returned; the counters are updated and the
\* outcome message is called.
upload_returns(l, result) ==
    /\ l.pc = "upload"
    /\ stats' = UpdateStats(stats, result)
    /\ loops' = Step(l, [l EXCEPT !.pc = "notify",
                                  !.result = IF result.success THEN "success" ELSE "failure",
                                  !.notice = IF result.success THEN "success" ELSE "failed"])
    /\ transfers' = IF result.success
                       THEN [transfers EXCEPT !.success = @ + 1, !.bytes = @ + result.size]
                       ELSE [transfers EXCEPT !.failure = @ + 1]
    /\ notified' = Append(notified, Notice(l.item))
    /\ reply' = NoReply
    /\ UNCHANGED <<upload_queue, is_processing, GOOGLE_DRIVE_FOLDER_ID,
                   next_message_id, acking, pending,
                   enqueued, dequeued, raised, cleared>>

\* Lines 274-287: the outcome message was sent; the stream is closed and the
\* delay begins.
notify_returns(l) ==
    /\ l.pc = "notify"
    /\ loops' = Step(l, [l EXCEPT !.pc = "sleep", !.file_stream = "closed"])
    /\ reply' = NoReply
    /\ UNCHANGED <<upload_queue, is_processing, stats, GOOGLE_DRIVE_FOLDER_ID,
                   next_message_id, acking, pending, history>>

notify_raises(l) ==
    /\ l.pc = "notify"
    /\ ExceptClause(l, "notify")
    /\ reply' = NoReply
    /\ UNCHANGED <<upload_queue, is_processing, GOOGLE_DRIVE_FOLDER_ID,
                   next_message_id, acking, pending,
                   enqueued, dequeued, transfers, cleared>>

\* Lines 280-287: the "Error" message was sent; the delay begins.
fail_notify_returns(l) ==
    /\ l.pc = "fail_notify"
    /\ loops' = Step(l, [l EXCEPT !.pc = "sleep"])
    /\ reply' = NoReply
    /\ UNCHANGED <<upload_queue, is_processing, stats, GOOGLE_DRIVE_FOLDER_ID,
                   next_message_id, acking, pending, history>>

\* Lines 280-284: send_message raised inside the except clause; nothing
\* catches it, the task ends and line 289 is never reached.
fail_notify_raises(l) ==
    /\ l.pc = "fail_notify"
    /\ loops' = Step(l, [l EXCEPT !.pc = "crashed"])
    /\ reply' = NoReply
    /\ UNCHANGED <<upload_queue, is_processing, stats, GOOGLE_DRIVE_FOLDER_ID,
                   next_message_id, acking, pending, history>>

\* Lines 287, 222-223, 289: the delay is over; the while test runs again.
sleep_returns(l) ==
    /\ l.pc = "sleep"
    /\ LoopCheck(loops \ {l}, is_processing)
    /\ reply' = NoReply
    /\ UNCHANGED <<stats, GOOGLE_DRIVE_FOLDER_ID, next_message_id, acking, pending,
                   enqueued, notified, transfers, raised, cleared>>

process_queue ==
    \/ process_queue_start
    \/ \E l \in loops : started_returns(l)
    \/ \E l \in loops : started_raises(l)
    \/ \E l \in loops : get_file_returns(l)
    \/ \E l \in loops : get_file_raises(l)
    \/ \E l \in loops : download_returns(l)
    \/ \E l \in loops : download_raises(l)
    \/ \E l \in loops, result \in Results : upload_returns(l, result)
    \/ \E l \in loops : notify_returns(l)
    \/ \E l \in loops : notify_raises(l)
    \/ \E l \in loops : fail_notify_returns(l)
    \/ \E l \in loops : fail_notify_raises(l)
    \/ \E l \in loops : sleep_returns(l)

\* ------------------------------------------------------- command handlers
\* list(upload_queue)[-n:] in the place of [:n]: the newest n items.
FirstN_Newest(q, n) == SubSeq(q, Max(1, Len(q) - n + 1), Len(q))

\* list(upload_queue)[:n]
FirstN(q, n) == SubSeq(q, 1, Min(Len(q), n))

\* Lines 294-306: the text of the /queue reply.
QueueStatusText(q) ==
    IF q = <<>>
       THEN [kind |-> "status", total |-> 0, names |-> <<>>, more |-> 0]
       ELSE [kind |-> "status", total |-> Len(q),
             names |-> [i \in 1..Len(FirstN(q, StatusLimit)) |->
                           FirstN(q, StatusLimit)[i].filename],
             more |-> IF Len(q) > StatusLimit THEN Len(q) - StatusLimit ELSE 0]

queue_status ==
    /\ reply' = QueueStatusText(upload_queue)
    /\ UNCHANGED <<upload_queue, is_processing, stats, GOOGLE_DRIVE_FOLDER_ID,
                   next_message_id, acking, pending, loops, history>>

\* Lines 310-324: /stats reads the counters and the queue length and replies.
show_stats ==
    /\ reply' = NoReply
    /\ UNCHANGED <<upload_queue, is_processing, stats, GOOGLE_DRIVE_FOLDER_ID,
                   next_message_id, acking, pending, loops, history>>

\* A clear that also resets the counters.
clear_queue_ResetsStats(user) ==
    /\ IF is_admin(user)
          THEN /\ reply' = [kind |-> "cleared", count |-> Len(upload_queue)]
               /\ upload_queue' = <<>>
               /\ stats' = [total_uploads |-> 0, successful_uploads |-> 0,
                            failed_uploads |-> 0,
                            total_size_mb |-> [num |-> 0, den |-> BytesPerMB]]
               /\ cleared' = cleared \cup
                      {upload_queue[i].message_id : i \in 1..Len(upload_queue)}
          ELSE /\ reply' = NoReply
               /\ UNCHANGED <<upload_queue, stats, cleared>>
    /\ UNCHANGED <<is_processing, GOOGLE_DRIVE_FOLDER_ID,
                   next_message_id, acking, pending, loops,
                   enqueued, dequeued, notified, transfers, raised>>

\* A clear that also resets the flag.
clear_queue_ResetsFlag(user) ==
    /\ IF is_admin(user)
          THEN /\ reply' = [kind |-> "cleared", count |-> Len(upload_queue)]
               /\ upload_queue' = <<>>
               /\ is_processing' = FALSE
               /\ cleared' = cleared \cup
                      {upload_queue[i].message_id : i \in 1..Len(upload_queue)}
          ELSE /\ reply' = NoReply
               /\ UNCHANGED <<upload_queue, is_processing, cleared>>
    /\ UNCHANGED <<stats, GOOGLE_DRIVE_FOLDER_ID,
                   next_message_id, acking, pending, loops,
                   enqueued, dequeued, notified, transfers, raised>>

\* Lines 347-349; lines 343-345 turn away a user who is no admin.
clear_queue(user) ==
    /\ IF is_admin(user)
          THEN /\ reply' = [kind |-> "cleared", count |-> Len(upload_queue)]
               /\ upload_queue' = <<>>
               /\ cleared' = cleared \cup
                      {upload_queue[i].message_id : i \in 1..Len(upload_queue)}
          ELSE /\ reply' = NoReply
               /\ UNCHANGED <<upload_queue, cleared>>
    /\ UNCHANGED <<is_processing, stats, GOOGLE_DRIVE_FOLDER_ID,
                   next_message_id, acking, pending, loops,
                   enqueued, dequeued, notified, transfers, raised>>

\* Lines 353-366: an admin who names a folder sets the destination.
set_folder(user, args) ==
    /\ GOOGLE_DRIVE_FOLDER_ID' = IF is_admin(user) /\ args # <<>>
                                    THEN args[1] ELSE GOOGLE_DRIVE_FOLDER_ID
    /\ reply' = NoReply
    /\ UNCHANGED <<upload_queue, is_processing, stats,
                   next_message_id, acking, pending, loops, history>>

\* ----------------------------------------------------------- specifications
Handlers(bound) ==
    \/ \E u \in Updates(next_message_id) : handle_media(u, bound)
    \/ handle_media_ack
    \/ handle_media_ack_raises
    \/ queue_status
    \/ show_stats
    \/ \E user \in Users : clear_queue(user)
    \/ \E user \in Users, args \in {<<>>} \cup {<<f>> : f \in Folders} : set_folder(user, args)

Next ==
    \/ Handlers(MaxItems)
    \/ process_queue

Spec == Init /\ [][Next]_vars

\* The command handlers alone, with a queue long enough for the status view
\* to cut it: the created tasks have not been scheduled yet.
NextStatus == Handlers(MaxStatusItems)

SpecStatus == Init /\ [][NextStatus]_vars

\* ------------------------------------------------------------------ claims
\* The tasks that are between a popleft and the delay that follows the item.
Handling == {l \in loops : l.pc \in LoopStates \ {"sleep"}}

\* Where a message id stands in the order of the appends.
Pos(id) == CHOOSE i \in 1..Len(enqueued) : enqueued[i] = id

\* The queue is empty, no loop runs, the flag is down.
Drained == upload_queue = <<>> /\ loops = {} /\ ~is_processing

\* C1 (single-flight): in every reachable state at most one task is inside
\* the while loop of process_queue, whatever the interleaving of enqueues and
\* activations.
C1_SingleFlight == Cardinality(Active) <= 1

\* A loop is running with items queued while a second activation is pending.
C1_Witness == Cardinality(Active) = 1 /\ pending > 0 /\ upload_queue # <<>>

\* C2 (FIFO): with no clear, the items are dequeued in the order of their
\* appends with none skipped, the outcome messages follow the same order, and
\* every item but the one in flight has had its outcome message.
C2_Fifo ==
    cleared = {} =>
        /\ Len(dequeued) <= Len(enqueued)
        /\ \A i \in 1..Len(dequeued) : dequeued[i] = enqueued[i]
        /\ \A i \in 1..Len(notified) : \A j \in i..Len(notified) :
               Pos(notified[i].reply_to) <= Pos(notified[j].reply_to)
        /\ \A i \in 1..(Len(dequeued) - 1) :
               \E n \in 1..Len(notified) : notified[n].reply_to = dequeued[i]
        /\ \A n \in 1..Len(notified) :
               \E i \in 1..Len(dequeued) : notified[n].reply_to = dequeued[i]

\* Three items were dequeued and reported, the loop still running.
C2_Witness ==
    /\ cleared = {}
    /\ Len(dequeued) = 3
    /\ {notified[n].reply_to : n \in 1..Len(notified)} = {1, 2, 3}
    /\ Active # {}

\* C3 (statistics invariant): whenever no item is being handled,
\* total_uploads = successful_uploads + failed_uploads.
C3_StatsInvariant ==
    Handling = {} =>
        stats.total_uploads = stats.successful_uploads + stats.failed_uploads

\* C4 (the loop survives every item): no task leaves process_queue through an
\* exception, and the flag is never up with no loop running.
C4_OnlyEmptyQueueEndsLoop ==
    /\ \A l \in loops : l.pc # "crashed"
    /\ is_processing => Active # {}

\* C5 (one attempt counted per item): whenever no item is being handled,
\* total_uploads equals the number of items dequeued.
C5_OneAttemptPerItem ==
    Handling = {} => stats.total_uploads = Len(dequeued)

\* C6 as stated (megabytes of 1e6 bytes): after a drain in which nothing
\* raised and nothing was cleared, the counters are the number of items, of
\* Success results, of Failure results, and the successful bytes / 1e6.
C6_OutcomeAccountingDecimal ==
    (Drained /\ ~raised /\ cleared = {}) =>
        /\ stats.total_uploads = Len(enqueued)
        /\ stats.successful_uploads = transfers.success
        /\ stats.failed_uploads = transfers.failure
        /\ stats.total_size_mb.num * 1000000 = transfers.bytes * stats.total_size_mb.den

\* C6 (outcome accounting), amended: the same, with total_size_mb the
\* successful bytes / (1024*1024).
C6_OutcomeAccounting ==
    (Drained /\ ~raised /\ cleared = {}) =>
        /\ stats.total_uploads = Len(enqueued)
        /\ stats.successful_uploads = transfers.success
        /\ stats.failed_uploads = transfers.failure
        /\ stats.total_size_mb.num * (1024 * 1024) = transfers.bytes * stats.total_size_mb.den

\* Three items drained, two uploaded and one refused, nothing raised.
C6_Witness ==
    /\ Drained /\ ~raised /\ cleared = {}
    /\ Len(enqueued) = 3
    /\ transfers.success = 2 /\ transfers.failure = 1

\* C7 (fetch failure): for an item whose get_file or download raised,
\* upload_file is never called, the failure message is called, and the loop
\* stays alive to take the next item.
C7_FetchFailure ==
    \A l \in loops : l.err \in {"get_file", "download"} =>
        /\ l.uploads = 0
        /\ l.result = "none"
        /\ l.notice = "error"
        /\ l.pc # "crashed"

\* C8 (clear while draining): no cleared item is ever dequeued, handled or
\* notified, the count sent is the number of items removed, and once a clear
\* has run the item in flight completes and the flag comes down: the loop
\* does not die, and the flag is never up with no loop running.
C8_ClearWhileDraining ==
    /\ \A i \in 1..Len(dequeued) : dequeued[i] \notin cleared
    /\ \A l \in loops : l.item.message_id \notin cleared
    /\ \A n \in 1..Len(notified) : notified[n].reply_to \notin cleared
    /\ reply.kind = "cleared" => upload_queue = <<>> /\ reply.count <= Cardinality(cleared)
    /\ cleared # {} => /\ \A l \in loops : l.pc # "crashed"
                       /\ is_processing => Active # {}

\* C9 (clear is idempotent): a clear leaves the queue empty, and a clear of
\* an empty queue reports 0 and changes neither the queue, the flag, the
\* counters nor any task.
C9_ClearIdempotent ==
    [][\A user \in ADMIN_USER_IDS : clear_queue(user) =>
          /\ upload_queue' = <<>>
          /\ upload_queue = <<>> =>
                /\ reply'.count = 0
                /\ UNCHANGED <<upload_queue, is_processing, stats, loops, pending>>]_vars

\* An empty queue was cleared while the loop was handling an item.
C9_Witness ==
    /\ reply = [kind |-> "cleared", count |-> 0]
    /\ is_processing
    /\ Handling # {}
    /\ stats.total_uploads > 0

\* C10 (status view): /queue lists the min(n, 10) oldest file names in
\* arrival order, reports max(n - 10, 0) more, and changes neither the queue,
\* the flag nor any task.
C10_StatusView ==
    [][queue_status =>
          /\ Len(reply'.names) = Min(Len(upload_queue), 10)
          /\ \A i \in 1..Len(reply'.names) : reply'.names[i] = upload_queue[i].filename
          /\ reply'.more = Max(Len(upload_queue) - 10, 0)
          /\ reply'.total = Len(upload_queue)
          /\ UNCHANGED <<upload_queue, is_processing, stats, loops, pending>>]_vars

\* The view of a queue of eleven items: ten names and one more.
C10_Witness ==
    /\ reply.kind = "status"
    /\ Len(upload_queue) = 11
    /\ Len(reply.names) = 10
    /\ reply.more = 1

\* C11 (the "Uploading" message is best effort): no item is failed because
\* its "Uploading" message raised; its fetch and its upload are still made.
C11_StartedBestEffort ==
    \A l \in loops : l.notice = "error" => l.err # "started"

\* ------------------------------------------- every collaborator call returns
\* The steps of the drain loop in which the awaited call returns.
LoopReturns ==
    \/ \E l \in loops : started_returns(l)
    \/ \E l \in loops : get_file_returns(l)
    \/ \E l \in loops : download_returns(l)
    \/ \E l \in loops, result \in Results : upload_returns(l, result)
    \/ \E l \in loops : notify_returns(l)
    \/ \E l \in loops : sleep_returns(l)

\* The program with no call raising: the handlers, the activations and the
\* loop steps above.
NextReturns ==
    \/ \E u \in Updates(next_message_id) : handle_media(u, MaxItems)
    \/ handle_media_ack
    \/ queue_status
    \/ show_stats
    \/ \E user \in Users : clear_queue(user)
    \/ \E user \in Users, args \in {<<>>} \cup {<<f>> : f \in Folders} : set_folder(user, args)
    \/ process_queue_start
    \/ LoopReturns

\* The event loop runs every task that is ready (asyncio's FIFO ready queue)
\* and every awaited call returns: a step that stays enabled is taken.
SpecReturns ==
    /\ Init
    /\ [][NextReturns]_vars
    /\ WF_vars(handle_media_ack)
    /\ WF_vars(process_queue_start)
    /\ WF_vars(LoopReturns)

\* C12 (activation and completion): when every call returns, an activation
\* that finds the processor idle and the queue non-empty starts the one drain
\* loop, and a non-empty queue always leads to the queue empty, no loop
\* running and the flag down.
C12_ActivationCompletes ==
    /\ [][(process_queue_start /\ ~is_processing /\ upload_queue # <<>>) =>
             (Cardinality(Active') = 1 /\ is_processing')]_vars
    /\ (upload_queue # <<>>) ~> Drained

\* All three items were handled and the processor is idle again.
C12_Witness ==
    /\ Drained
    /\ Len(dequeued) = 3
    /\ stats.total_uploads = 3
    /\ pending = 0 /\ acking = 0


\* The outcome messages called so far for the message with this id.
NoticesFor(id) == {i \in 1..Len(notified) : notified[i].reply_to = id}

\* C13 (outcome notification): an item whose handling is over got exactly one
\* outcome message, sent to its own chat as a reply to its own message, and
\* that message is the success message exactly when upload_file returned
\* success for it.
C13_OutcomeNotification ==
    \A l \in loops : l.pc = "sleep" =>
        /\ Cardinality(NoticesFor(l.item.message_id)) = 1
        /\ \A i \in NoticesFor(l.item.message_id) : notified[i].chat_id = l.item.chat_id
        /\ l.notice = "success" <=> l.result = "success"


\* C14 (single attempt): no message id is dequeued twice, upload_file is
\* called at most once for the item a loop holds, and an item that was
\* dequeued is never in upload_queue again.
C14_SingleAttempt ==
    /\ \A i, j \in 1..Len(dequeued) : dequeued[i] = dequeued[j] => i = j
    /\ \A l \in loops : l.uploads <= 1
    /\ \A i \in 1..Len(upload_queue), j \in 1..Len(dequeued) :
           upload_queue[i].message_id # dequeued[j]
    /\ transfers.success + transfers.failure <= Len(dequeued)

\* An item's handling raised, the loop went on to a later item, and a third
\* item is waiting.
C14_Witness ==
    /\ raised
    /\ stats.failed_uploads >= 1
    /\ Len(dequeued) = 2
    /\ upload_queue # <<>>
    /\ \E l \in loops : l.pc = "upload" /\ l.item.message_id = dequeued[2]


\* The outcomes written to the statistics so far.
Outcomes == stats.successful_uploads + stats.failed_uploads

\* C15 (run to completion): at every step that dequeues an item no earlier
\* item is still being handled and every item dequeued before has an outcome
\* in the statistics; at most one item is being handled at any time.
C15_RunToCompletion ==
    [][/\ Cardinality(Handling') <= 1
       /\ Len(dequeued') > Len(dequeued) =>
             /\ Handling = {}
             /\ Outcomes >= Len(dequeued)
             /\ \A l \in loops : l.pc = "sleep" => l.notice # "none"]_vars

\* The second item has just been dequeued, after the first one's outcome was
\* written, while a clear has removed an item and a third enqueue is waiting
\* for its acknowledgement.
C15_Witness ==
    /\ Len(dequeued) = 2
    /\ Outcomes >= 1
    /\ cleared # {}
    /\ acking > 0
    /\ \E l \in loops : l.pc = "started" /\ l.item.message_id = dequeued[2]


\* A drain loop moves in this step: the locals of one of its tasks change.
LoopMoves == \E l \in Active : l \notin loops'

\* A step of a handler: no task's locals change and no created activation
\* starts (the handlers only ever add to pending).
HandlerStep == loops' = loops /\ pending' >= pending

\* C16 (single-writer statistics): a step of a handler (enqueue, clear,
\* queue, stats, set_folder) leaves stats as it is; stats changes only in a
\* step of a drain loop, and no step makes any of the four counters smaller.
C16_SingleWriter ==
    [][/\ HandlerStep => stats' = stats
       /\ stats' # stats => LoopMoves
       /\ stats'.total_uploads >= stats.total_uploads
       /\ stats'.successful_uploads >= stats.successful_uploads
       /\ stats'.failed_uploads >= stats.failed_uploads
       /\ stats'.total_size_mb.num >= stats.total_size_mb.num
       /\ stats'.total_size_mb.den = stats.total_size_mb.den]_vars

\* Both kinds of outcome were counted, and a clear, a set_folder and a later
\* enqueue ran after that.
C16_Witness ==
    /\ stats.successful_uploads >= 1
    /\ stats.failed_uploads >= 1
    /\ stats.total_size_mb.num > 0
    /\ cleared # {}
    /\ GOOGLE_DRIVE_FOLDER_ID = "F1"
    /\ upload_queue # <<>>


\* C17 (buffer release): when the handling of an item is over and the loop is
\* about to test the queue again, the byte stream created for that item is
\* not open any more, whatever path the handling took.
C17_BufferReleased ==
    \A l \in loops : l.pc = "sleep" => l.file_stream # "open"


\* C18 (no stranded item): the program is never at rest with an item in the
\* queue and the processor idle: while items wait and the flag is down, an
\* enqueue is still before its check of the flag or a created activation has
\* yet to start.
C18_NoStrandedItem ==
    (upload_queue # <<>> /\ ~is_processing) => (pending > 0 \/ acking > 0)


\* C19 (destination binding): in the step that calls upload_file for an item
\* the destination passed is the value GOOGLE_DRIVE_FOLDER_ID has in that
\* step, and no later step (a set_folder included) changes the destination
\* of an upload that was called.
C19_DestinationBinding ==
    [][\A l \in loops, m \in loops' :
          m.item = l.item =>
             /\ (l.uploads = 0 /\ m.uploads > 0) => m.dest = GOOGLE_DRIVE_FOLDER_ID
             /\ l.uploads > 0 => m.dest = l.dest]_vars

\* An upload called with folder F1 is in flight, a set_folder has since put
\* the folder back to F0, and a further item is waiting.
C19_Witness ==
    /\ GOOGLE_DRIVE_FOLDER_ID = "F0"
    /\ upload_queue # <<>>
    /\ \E l \in loops : l.pc = "upload" /\ l.uploads = 1 /\ l.dest = "F1"


\* C20 (no lost wake-up): the flag comes down only in a step that finds the
\* queue empty and leaves it empty, and an enqueue that sees the flag up at
\* its check has a running drain loop that will test the queue again.
C20_NoLostWakeup ==
    [][/\ (is_processing /\ ~is_processing') =>
              (upload_queue = <<>> /\ upload_queue' = <<>>)
       /\ (handle_media_ack /\ is_processing) => (Active # {} /\ Active' # {})]_vars

====
